---- MODULE Spec2Model ----
(***************************************************************************)
(* SurfaceTexture (libs/gui/SurfaceTexture.cpp): the consumer side of a    *)
(* BufferQueue.  The state is the object's fields; every public operation  *)
(* and queue callback runs under mMutex and is one atomic action, except   *)
(* onFrameAvailable, which drops the lock before it calls the listener.    *)
(* The BufferQueue and the EGL/GL driver are the environment: what they    *)
(* return is chosen nondeterministically.                                  *)
(***************************************************************************)
EXTENDS Integers, Sequences, FiniteSets, TLC

(* ----------------------------- bounds ---------------------------------- *)
\* slots of the queue (BufferQueue::NUM_BUFFER_SLOTS is 32 in the build)
NUM_BUFFER_SLOTS == 2
\* operations started on one instance
MaxCalls == 3
\* distinct GraphicBuffer objects the queue may hand over
MaxBuffers == 1

(* --------------------------- program constants ------------------------- *)
INVALID_BUFFER_SLOT == -1
EGL_NO_DISPLAY == 0
EGL_NO_CONTEXT == 0
EGL_NO_IMAGE_KHR == 0
EGL_NO_SYNC_KHR == 0
NULL == 0
NATIVE_WINDOW_TRANSFORM_FLIP_H == 1
NATIVE_WINDOW_TRANSFORM_FLIP_V == 2
NATIVE_WINDOW_TRANSFORM_ROT_90 == 4

Slots == 0 .. (NUM_BUFFER_SLOTS - 1)
GraphicBuffers == 1 .. MaxBuffers

\* holders of mMutex: nobody, or the thread that delivers onFrameAvailable
NoThread == "none"
QueueThread == "queue"

\* mBufferQueue after mBufferQueue.clear()
NoQueue == "null"

\* a value read from outside the slot array: not EGL_NO_SYNC_KHR, no fence
\* this object created
GarbageSync == -7

(* ------------------------------ matrices ------------------------------- *)
\* A float[16] is modelled exactly: the entries are n[i] / d with one common
\* denominator d > 0 (column-major, n[1] is out[0]).
Abs(x) == IF x < 0 THEN -x ELSE x

RECURSIVE Gcd(_, _)
Gcd(a, b) == IF b = 0 THEN Abs(a) ELSE Gcd(b, a % b)

RECURSIVE GcdSeq(_, _, _)
GcdSeq(s, i, g) == IF i > Len(s) THEN g ELSE GcdSeq(s, i + 1, Gcd(g, Abs(s[i])))

\* the same sixteen numbers in lowest terms
mtxNorm(m) ==
    CHOOSE out \in {[n |-> [i \in 1..16 |-> v.n[i] \div g], d |-> v.d \div g] :
                       v \in {m}, g \in {GcdSeq(m.n, 1, m.d)}} : TRUE

IntMtx(t) == [n |-> t, d |-> 1]

mtxIdentity == IntMtx(<< 1, 0, 0, 0,   0, 1, 0, 0,   0, 0, 1, 0,   0, 0, 0, 1>>)
mtxFlipH    == IntMtx(<<-1, 0, 0, 0,   0, 1, 0, 0,   0, 0, 1, 0,   1, 0, 0, 1>>)
mtxFlipV    == IntMtx(<< 1, 0, 0, 0,   0,-1, 0, 0,   0, 0, 1, 0,   0, 1, 0, 1>>)
mtxRot90    == IntMtx(<< 0, 1, 0, 0,  -1, 0, 0, 0,   0, 0, 1, 0,   1, 0, 0, 1>>)
mtxRot180   == IntMtx(<<-1, 0, 0, 0,   0,-1, 0, 0,   0, 0, 1, 0,   1, 1, 0, 1>>)
mtxRot270   == IntMtx(<< 0,-1, 0, 0,   1, 0, 0, 0,   0, 0, 1, 0,   0, 1, 0, 1>>)

\* static void mtxMul(float out[16], const float a[16], const float b[16]):
\* p and q are a and b, evaluated once
mtxMul(a, b) ==
    CHOOSE out \in {
      [n |-> <<p.n[1]*q.n[1]  + p.n[5]*q.n[2]  + p.n[9]*q.n[3]   + p.n[13]*q.n[4],
               p.n[2]*q.n[1]  + p.n[6]*q.n[2]  + p.n[10]*q.n[3]  + p.n[14]*q.n[4],
               p.n[3]*q.n[1]  + p.n[7]*q.n[2]  + p.n[11]*q.n[3]  + p.n[15]*q.n[4],
               p.n[4]*q.n[1]  + p.n[8]*q.n[2]  + p.n[12]*q.n[3]  + p.n[16]*q.n[4],

               p.n[1]*q.n[5]  + p.n[5]*q.n[6]  + p.n[9]*q.n[7]   + p.n[13]*q.n[8],
               p.n[2]*q.n[5]  + p.n[6]*q.n[6]  + p.n[10]*q.n[7]  + p.n[14]*q.n[8],
               p.n[3]*q.n[5]  + p.n[7]*q.n[6]  + p.n[11]*q.n[7]  + p.n[15]*q.n[8],
               p.n[4]*q.n[5]  + p.n[8]*q.n[6]  + p.n[12]*q.n[7]  + p.n[16]*q.n[8],

               p.n[1]*q.n[9]  + p.n[5]*q.n[10] + p.n[9]*q.n[11]  + p.n[13]*q.n[12],
               p.n[2]*q.n[9]  + p.n[6]*q.n[10] + p.n[10]*q.n[11] + p.n[14]*q.n[12],
               p.n[3]*q.n[9]  + p.n[7]*q.n[10] + p.n[11]*q.n[11] + p.n[15]*q.n[12],
               p.n[4]*q.n[9]  + p.n[8]*q.n[10] + p.n[12]*q.n[11] + p.n[16]*q.n[12],

               p.n[1]*q.n[13] + p.n[5]*q.n[14] + p.n[9]*q.n[15]  + p.n[13]*q.n[16],
               p.n[2]*q.n[13] + p.n[6]*q.n[14] + p.n[10]*q.n[15] + p.n[14]*q.n[16],
               p.n[3]*q.n[13] + p.n[7]*q.n[14] + p.n[11]*q.n[15] + p.n[15]*q.n[16],
               p.n[4]*q.n[13] + p.n[8]*q.n[14] + p.n[12]*q.n[15] + p.n[16]*q.n[16]>>,
       d |-> p.d * q.d] : p \in {a}, q \in {b}} : TRUE

\* mCurrentTransform & bit
HasBit(flags, bit) == (flags \div bit) % 2 = 1

(* ------------------------------- Rect ---------------------------------- *)
Rect(l, t, r, b) == [left |-> l, top |-> t, right |-> r, bottom |-> b]
RectWidth(c) == c.right - c.left
RectHeight(c) == c.bottom - c.top
RectIsEmpty(c) == RectWidth(c) <= 0 \/ RectHeight(c) <= 0

\* a buffer of 256 x 256 texels
SquareBuffer == 64

\* GraphicBuffer::getWidth / getHeight: buffer b is 4b x 3b texels, the square
\* one 4b x 4b
getWidth(b) == 4 * b
getHeight(b) == IF b = SquareBuffer THEN 4 * b ELSE 3 * b

\* the crop offsets without the texel added
CropTerms_NoTexel(crop, W, H) ==
    LET leftIn   == crop.left > 0
        rightIn  == crop.right < W
        bottomIn == crop.bottom < H
        topIn    == crop.top > 0
        xshrink  == (IF leftIn THEN 1 ELSE 0) + (IF rightIn THEN 1 ELSE 0)
        yshrink  == (IF bottomIn THEN 1 ELSE 0) + (IF topIn THEN 1 ELSE 0)
    IN  [tx |-> IF leftIn THEN crop.left ELSE 0,
         ty |-> IF bottomIn THEN H - crop.bottom ELSE 0,
         sx |-> RectWidth(crop) - xshrink,
         sy |-> RectHeight(crop) - yshrink]

\* the crop part of computeCurrentTransformMatrix: <<tx, ty, sx, sy>> as the
\* four numerators; tx and sx are over getWidth, ty and sy over getHeight
CropTerms(crop, W, H) ==
    LET leftIn   == crop.left > 0
        rightIn  == crop.right < W
        bottomIn == crop.bottom < H
        topIn    == crop.top > 0
        xshrink  == (IF leftIn THEN 1 ELSE 0) + (IF rightIn THEN 1 ELSE 0)
        yshrink  == (IF bottomIn THEN 1 ELSE 0) + (IF topIn THEN 1 ELSE 0)
    IN  [tx |-> IF leftIn THEN crop.left + 1 ELSE 0,
         ty |-> IF bottomIn THEN (H - crop.bottom) + 1 ELSE 0,
         sx |-> RectWidth(crop) - xshrink,
         sy |-> RectHeight(crop) - yshrink]

\* float crop[16] = { sx,0,0,0,  0,sy,0,0,  0,0,1,0,  tx,ty,0,1 }
CropMtx(crop, W, H) ==
    IF RectIsEmpty(crop)
    THEN IntMtx(<<1, 0, 0, 0,   0, 1, 0, 0,   0, 0, 1, 0,   0, 0, 0, 1>>)
    ELSE LET k == CropTerms(crop, W, H)
         IN  [n |-> <<k.sx * H, 0, 0, 0,
                      0, k.sy * W, 0, 0,
                      0, 0, W * H, 0,
                      k.tx * H, k.ty * W, 0, W * H>>,
              d |-> W * H]

\* xform with the rotation applied before the flips
XformOf_RotFirst(transform) ==
    LET x0 == mtxIdentity
        x1 == IF HasBit(transform, NATIVE_WINDOW_TRANSFORM_ROT_90)
              THEN mtxMul(x0, mtxRot90) ELSE x0
        x2 == IF HasBit(transform, NATIVE_WINDOW_TRANSFORM_FLIP_H)
              THEN mtxMul(x1, mtxFlipH) ELSE x1
        x3 == IF HasBit(transform, NATIVE_WINDOW_TRANSFORM_FLIP_V)
              THEN mtxMul(x2, mtxFlipV) ELSE x2
    IN  x3

\* xform: identity, then FLIP_H, FLIP_V, ROT_90 for the bits that are set
XformOf(transform) ==
    LET x0 == mtxIdentity
        x1 == IF HasBit(transform, NATIVE_WINDOW_TRANSFORM_FLIP_H)
              THEN mtxMul(x0, mtxFlipH) ELSE x0
        x2 == IF HasBit(transform, NATIVE_WINDOW_TRANSFORM_FLIP_V)
              THEN mtxMul(x1, mtxFlipV) ELSE x1
        x3 == IF HasBit(transform, NATIVE_WINDOW_TRANSFORM_ROT_90)
              THEN mtxMul(x2, mtxRot90) ELSE x2
    IN  x3

\* the matrix the call leaves in mCurrentTransformMatrix (W, H are read only
\* when the crop is not empty)
computeCurrentTransformMatrix(transform, crop, W, H) ==
    LET mtxBeforeFlipV == mtxMul(CropMtx(crop, W, H), XformOf(transform))
    IN  mtxNorm(mtxMul(mtxFlipV, mtxBeforeFlipV))

(* ------------------------------ inputs --------------------------------- *)
\* <<eglGetCurrentDisplay(), eglGetCurrentContext()>> of a calling thread;
\* <<EGL_NO_DISPLAY, EGL_NO_CONTEXT>> is a thread with no context current
CallerEnvs == {<<EGL_NO_DISPLAY, EGL_NO_CONTEXT>>, <<1, 1>>, <<1, 2>>, <<2, 3>>}

\* what a queued frame carries besides its slot and buffer
FrameMetas ==
    {[mCrop |-> Rect(0, 0, 0, 0), mTransform |-> 0, mScalingMode |-> 0, mTimestamp |-> 1],
     [mCrop |-> Rect(1, 1, 3, 2), mTransform |-> 7, mScalingMode |-> 1, mTimestamp |-> 2]}

\* acquireBuffer's statuses other than NO_ERROR
AcquireErrors == {"NO_BUFFER_AVAILABLE", "INVALID_OPERATION"}

Listeners == {NULL, 1}
Names == {"unnamed", "renamed"}

VARIABLES
    mAbandoned, mBufferQueue, mEglDisplay, mEglContext, mEGLSlots,
    mCurrentTexture, mCurrentTextureBuf, mCurrentCrop, mCurrentTransform,
    mCurrentScalingMode, mCurrentTimestamp, mCurrentTransformMatrix,
    mFrameAvailableListener, mName, mUseFenceSync, mMutex,
    \* onFrameAvailable in progress: where it is, and its local `listener`
    ofaPc, listener,
    \* the environment: slots the queue counts as acquired by this consumer,
    \* the next image / fence handle the driver will create
    acquired, nextImage, nextFence,
    \* the process died on a null mBufferQueue
    crashed,
    \* observation of the last operation: its name, who called it, its status,
    \* the calls it made to the queue and the driver, the display and context
    \* current on the calling thread, what acquireBuffer returned (status, slot,
    \* buffer), and how many operations have run
    op, caller, ret, trace, callerEnv, acqStatus, acq, acqBuffer, nCalls,
    \* observation of the whole run: every releaseBuffer and eglDestroyImageKHR,
    \* and the slots of the successful new-buffer updates while nothing else
    \* has run on the instance
    releases, eglDestroyed, runSlots, runPure

consumerVars == <<mAbandoned, mBufferQueue, mEglDisplay, mEglContext, mEGLSlots,
                  mCurrentTexture, mCurrentTextureBuf, mCurrentCrop, mCurrentTransform,
                  mCurrentScalingMode, mCurrentTimestamp, mCurrentTransformMatrix,
                  mFrameAvailableListener, mName, mUseFenceSync>>
envVars == <<acquired, nextImage, nextFence, releases, eglDestroyed>>
observed == <<op, caller, ret, trace, callerEnv, acqStatus, acq, acqBuffer, nCalls>>
vars == <<consumerVars, mMutex, ofaPc, listener, envVars, crashed,
          observed, runSlots, runPure>>

\* the fields the accessors read
currentState == <<mCurrentTexture, mCurrentTextureBuf, mCurrentCrop, mCurrentTransform,
                  mCurrentScalingMode, mCurrentTimestamp, mCurrentTransformMatrix>>

EmptySlot == [mGraphicBuffer |-> NULL, mEglImage |-> EGL_NO_IMAGE_KHR, mFence |-> EGL_NO_SYNC_KHR]

Init ==
    /\ mAbandoned = FALSE
    /\ mBufferQueue = "BufferQueue"
    /\ mEglDisplay = EGL_NO_DISPLAY
    /\ mEglContext = EGL_NO_CONTEXT
    /\ mEGLSlots = [i \in Slots |-> EmptySlot]
    /\ mCurrentTexture = INVALID_BUFFER_SLOT
    /\ mCurrentTextureBuf = NULL
    \* the constructor leaves mCurrentCrop and mCurrentScalingMode unset
    /\ \E m \in FrameMetas : mCurrentCrop = m.mCrop /\ mCurrentScalingMode = m.mScalingMode
    /\ mCurrentTransform = 0
    /\ mCurrentTimestamp = 0
    /\ mCurrentTransformMatrix = mtxIdentity
    /\ mFrameAvailableListener = NULL
    /\ mName = "unnamed"
    /\ mUseFenceSync \in BOOLEAN
    /\ mMutex = NoThread
    /\ ofaPc = "idle"
    /\ listener = NULL
    /\ acquired = {}
    /\ nextImage = 1
    /\ nextFence = 1
    /\ crashed = FALSE
    /\ op = "SurfaceTexture"
    /\ caller = "app"
    /\ ret = "OK"
    /\ trace = <<>>
    /\ callerEnv = <<EGL_NO_DISPLAY, EGL_NO_CONTEXT>>
    /\ acqStatus = "NONE"
    /\ acq = INVALID_BUFFER_SLOT
    /\ acqBuffer = NULL
    /\ nCalls = 0
    /\ releases = <<>>
    /\ eglDestroyed = <<>>
    /\ runSlots = <<>>
    /\ runPure = TRUE

(* --------------------------- updateTexImage ---------------------------- *)
\* The call in progress: the fields it may write, the calls it has made, and
\* whether it has returned.
Pre ==
    [ret |-> "OK", done |-> FALSE, crashed |-> FALSE,
     abandoned |-> mAbandoned, queue |-> mBufferQueue,
     dpy |-> mEglDisplay, ctx |-> mEglContext, slots |-> mEGLSlots,
     tex |-> mCurrentTexture, buf |-> mCurrentTextureBuf, crop |-> mCurrentCrop,
     transform |-> mCurrentTransform, scaling |-> mCurrentScalingMode,
     timestamp |-> mCurrentTimestamp, matrix |-> mCurrentTransformMatrix,
     trace |-> <<>>, env |-> <<EGL_NO_DISPLAY, EGL_NO_CONTEXT>>,
     status |-> "NONE", acq |-> INVALID_BUFFER_SLOT, item |-> NULL,
     held |-> acquired, newImage |-> nextImage, newFence |-> nextFence,
     released |-> releases, destroyed |-> eglDestroyed]

Return(s, status) == [s EXCEPT !.ret = status, !.done = TRUE]

Call(s, f, a, b) == [s EXCEPT !.trace = Append(@, <<f, a, b>>)]

\* BufferQueue::acquireBuffer: an error, or a queued frame in a slot the
\* consumer does not hold, with or without a buffer for the slot
acquireBuffer(held) ==
    {[status |-> e, mBuf |-> INVALID_BUFFER_SLOT, mGraphicBuffer |-> NULL,
      meta |-> CHOOSE m \in FrameMetas : TRUE] : e \in AcquireErrors}
    \cup
    {[status |-> "NO_ERROR", mBuf |-> b, mGraphicBuffer |-> g, meta |-> m] :
        b \in Slots \ held, g \in {NULL} \cup GraphicBuffers, m \in FrameMetas}

\* mBufferQueue->releaseBuffer(slot, dpy, fence)
releaseBuffer(s, slot, fence) ==
    [Call(s, "releaseBuffer", slot, fence) EXCEPT
        !.held = @ \ {slot},
        !.released = Append(@, <<slot, fence>>)]

\* what reading mEGLSlots[i].mFence can give: outside the array, anything
ReadFence(s, i) ==
    IF i \in Slots THEN {s.slots[i].mFence} ELSE {EGL_NO_SYNC_KHR, GarbageSync}

\* eglDestroyImageKHR(dpy, img)
eglDestroyImageKHR(s, dpy, img) ==
    [Call(s, "eglDestroyImageKHR", dpy, img) EXCEPT !.destroyed = Append(@, img)]

\* eglCreateImageKHR succeeds only on a valid display
CreateImageResults(dpy) == IF dpy = EGL_NO_DISPLAY THEN {FALSE} ELSE BOOLEAN

\* eglCreateSyncKHR succeeds only on a valid display
CreateSyncResults(dpy) == IF dpy = EGL_NO_DISPLAY THEN {FALSE} ELSE BOOLEAN

DisplayMismatch(dpy) == mEglDisplay # dpy /\ mEglDisplay # EGL_NO_DISPLAY

\* the context test left out
ContextMismatch_NotTested(ctx) == FALSE

ContextMismatch(ctx) == mEglContext # ctx /\ mEglContext # EGL_NO_CONTEXT

\* the new buffer installed over an image that is dropped, not destroyed
InstallNewBuffer_Leaks(s, item) ==
    IF item.mGraphicBuffer # NULL
    THEN {[s EXCEPT !.slots[item.mBuf].mEglImage = EGL_NO_IMAGE_KHR,
                    !.slots[item.mBuf].mGraphicBuffer = item.mGraphicBuffer]}
    ELSE {s}

\* "This buffer was newly allocated, so we need to clean up on our side"
InstallNewBuffer(s, item) ==
    IF item.mGraphicBuffer # NULL
    THEN LET img == s.slots[item.mBuf].mEglImage
             s1 == IF img # EGL_NO_IMAGE_KHR
                   THEN eglDestroyImageKHR(s, s.dpy, img) ELSE s
         IN  {[s1 EXCEPT !.slots[item.mBuf].mEglImage = EGL_NO_IMAGE_KHR,
                         !.slots[item.mBuf].mGraphicBuffer = item.mGraphicBuffer]}
    ELSE {s}

\* the image created without the test for a null buffer
EnsureImage_NoNullCheck(s, item) ==
    IF s.slots[item.mBuf].mEglImage # EGL_NO_IMAGE_KHR THEN {s}
    ELSE {IF ok
          THEN [Call(s, "eglCreateImageKHR", s.dpy, s.newImage) EXCEPT
                    !.slots[item.mBuf].mEglImage = s.newImage,
                    !.newImage = @ + 1]
          ELSE Return(Call(s, "eglCreateImageKHR", s.dpy, EGL_NO_IMAGE_KHR), "EINVAL")
          : ok \in CreateImageResults(s.dpy)}

\* the slot's image, created when the slot has none
EnsureImage(s, item) ==
    IF s.slots[item.mBuf].mEglImage # EGL_NO_IMAGE_KHR THEN {s}
    ELSE IF item.mGraphicBuffer = NULL THEN {Return(s, "BAD_VALUE")}
    ELSE {IF ok
          THEN [Call(s, "eglCreateImageKHR", s.dpy, s.newImage) EXCEPT
                    !.slots[item.mBuf].mEglImage = s.newImage,
                    !.newImage = @ + 1]
          ELSE Return(Call(s, "eglCreateImageKHR", s.dpy, EGL_NO_IMAGE_KHR), "EINVAL")
          : ok \in CreateImageResults(s.dpy)}

\* the failed bind handing back the current slot
FailedBindRelease_Current(s, item) ==
    releaseBuffer(s, s.tex, s.slots[item.mBuf].mFence)

\* what the failed bind hands back to the queue
FailedBindRelease(s, item) ==
    releaseBuffer(s, item.mBuf, s.slots[item.mBuf].mFence)

\* the bind with the new slot made current before the error check
BindImage_CommitsFirst(s, item) ==
    LET image == s.slots[item.mBuf].mEglImage
        s1 == Call(Call(s, "glBindTexture", 0, 0), "glEGLImageTargetTexture2DOES", image, 0)
    IN  {s1, Return([FailedBindRelease(s1, item) EXCEPT !.tex = item.mBuf], "EINVAL")}

\* glBindTexture, glEGLImageTargetTexture2DOES, then the glGetError loop
BindImage(s, item) ==
    LET image == s.slots[item.mBuf].mEglImage
        s1 == Call(Call(s, "glBindTexture", 0, 0), "glEGLImageTargetTexture2DOES", image, 0)
    IN  {s1, Return(FailedBindRelease(s1, item), "EINVAL")}

\* the fence stored in the incoming slot
FenceSlot_Incoming(s, item) == item.mBuf

\* the slot that receives the fence created for the outgoing texture
FenceSlot(s, item) == s.tex

\* the fence for the texture that stops being current
FenceHandoff(s, item) ==
    IF s.tex # INVALID_BUFFER_SLOT /\ mUseFenceSync
    THEN {IF ok
          THEN [Call(Call(s, "eglCreateSyncKHR", s.dpy, s.newFence), "glFlush", 0, 0) EXCEPT
                    !.slots[FenceSlot(s, item)].mFence = s.newFence,
                    !.newFence = @ + 1]
          ELSE Return(releaseBuffer(Call(s, "eglCreateSyncKHR", s.dpy, EGL_NO_SYNC_KHR),
                                    item.mBuf, s.slots[item.mBuf].mFence), "EINVAL")
          : ok \in CreateSyncResults(s.dpy)}
    ELSE {s}

\* the incoming slot given back
ReleasedSlot_Incoming(s, item) == item.mBuf

\* the slot given back once the new image is bound
ReleasedSlot(s, item) == s.tex

\* "release old buffer", then "Update the SurfaceTexture state"
Commit(s, item) ==
    {LET s1 == releaseBuffer(s, ReleasedSlot(s, item), f)
         b  == s1.slots[item.mBuf].mGraphicBuffer
     IN  IF ~RectIsEmpty(item.meta.mCrop) /\ b = NULL
         THEN [Return(s1, "SIGSEGV") EXCEPT !.crashed = TRUE]
         ELSE [Return(s1, "OK") EXCEPT
                  !.tex = item.mBuf,
                  !.buf = b,
                  !.crop = item.meta.mCrop,
                  !.transform = item.meta.mTransform,
                  !.scaling = item.meta.mScalingMode,
                  !.timestamp = item.meta.mTimestamp,
                  !.matrix = computeCurrentTransformMatrix(item.meta.mTransform,
                                 item.meta.mCrop, getWidth(b), getHeight(b))]
     : f \in ReadFence(s, ReleasedSlot(s, item))}

\* the else branch without its glBindTexture
AcquireFailed_NoBind(s, status) == Return(s, "OK")

\* what updateTexImage returns when acquireBuffer gave no item
AcquireFailed(s, status) == Return(Call(s, "glBindTexture", 0, 0), "OK")

\* the call as it starts on a thread whose current display and context are
\* dpy and ctx
Entered(dpy, ctx) == [Pre EXCEPT !.env = <<dpy, ctx>>]

\* every way one call of updateTexImage can end, for a caller whose current
\* display and context are dpy and ctx
updateTexImage(dpy, ctx) ==
    IF mAbandoned THEN {Return(Entered(dpy, ctx), "NO_INIT")}
    ELSE IF DisplayMismatch(dpy) THEN {Return(Entered(dpy, ctx), "EINVAL")}
    ELSE IF ContextMismatch(ctx) THEN {Return(Entered(dpy, ctx), "EINVAL")}
    ELSE
      LET s0 == [Entered(dpy, ctx) EXCEPT !.dpy = dpy, !.ctx = ctx]
      IN  UNION {
            IF item.status = "NO_ERROR"
            THEN LET s1 == [Call(s0, "acquireBuffer", item.mBuf, 0) EXCEPT
                               !.status = item.status,
                               !.acq = item.mBuf,
                               !.item = item.mGraphicBuffer,
                               !.held = @ \cup {item.mBuf}]
                     a == InstallNewBuffer(s1, item)
                     \* each part runs on the outcomes that have not returned
                     b == UNION {IF s.done THEN {s} ELSE EnsureImage(s, item) : s \in a}
                     c == UNION {IF s.done THEN {s} ELSE BindImage(s, item) : s \in b}
                     d == UNION {IF s.done THEN {s} ELSE FenceHandoff(s, item) : s \in c}
                 IN  UNION {IF s.done THEN {s} ELSE Commit(s, item) : s \in d}
            ELSE {AcquireFailed([Call(s0, "acquireBuffer", INVALID_BUFFER_SLOT, 0) EXCEPT
                                    !.status = item.status], item.status)}
            : item \in acquireBuffer(acquired)}

\* the fields a finished operation leaves behind, and what was observed
Finish(r, name, who) ==
    /\ mAbandoned' = r.abandoned
    /\ mBufferQueue' = r.queue
    /\ mEglDisplay' = r.dpy
    /\ mEglContext' = r.ctx
    /\ mEGLSlots' = r.slots
    /\ mCurrentTexture' = r.tex
    /\ mCurrentTextureBuf' = r.buf
    /\ mCurrentCrop' = r.crop
    /\ mCurrentTransform' = r.transform
    /\ mCurrentScalingMode' = r.scaling
    /\ mCurrentTimestamp' = r.timestamp
    /\ mCurrentTransformMatrix' = r.matrix
    /\ acquired' = r.held
    /\ nextImage' = r.newImage
    /\ nextFence' = r.newFence
    /\ releases' = r.released
    /\ eglDestroyed' = r.destroyed
    /\ crashed' = r.crashed
    /\ op' = name
    /\ caller' = who
    /\ ret' = r.ret
    /\ trace' = r.trace
    /\ callerEnv' = r.env
    /\ acqStatus' = r.status
    /\ acq' = r.acq
    /\ acqBuffer' = r.item
    /\ nCalls' = nCalls + 1
    /\ LET more == /\ name = "updateTexImage"
                   /\ runPure /\ r.ret = "OK" /\ r.item # NULL /\ r.acq # INVALID_BUFFER_SLOT
                   /\ \A i \in 1..Len(runSlots) : runSlots[i] # r.acq
       IN  /\ runPure' = more
           /\ runSlots' = IF more THEN Append(runSlots, r.acq) ELSE <<>>
    /\ UNCHANGED mUseFenceSync

\* a thread may start an operation: the process is alive and mMutex is free
CanLock == ~crashed /\ mMutex = NoThread

CanEnter == CanLock /\ nCalls < MaxCalls

UpdateTexImage ==
    /\ CanEnter
    /\ \E e \in CallerEnvs : \E r \in updateTexImage(e[1], e[2]) : Finish(r, "updateTexImage", "app")
    /\ UNCHANGED <<mFrameAvailableListener, mName, mMutex, ofaPc, listener>>

(* ------------------------ freeBufferLocked, abandon -------------------- *)
\* freeBufferLocked without the clearing of mGraphicBuffer
freeBufferLocked_KeepsBuffer(s, slotIndex) ==
    LET img == s.slots[slotIndex].mEglImage
        s1 == IF img # EGL_NO_IMAGE_KHR THEN eglDestroyImageKHR(s, s.dpy, img) ELSE s
    IN  [s1 EXCEPT !.slots[slotIndex].mEglImage = EGL_NO_IMAGE_KHR]

freeBufferLocked(s, slotIndex) ==
    LET img == s.slots[slotIndex].mEglImage
        s1 == IF img # EGL_NO_IMAGE_KHR THEN eglDestroyImageKHR(s, s.dpy, img) ELSE s
    IN  [s1 EXCEPT !.slots[slotIndex].mGraphicBuffer = NULL,
                   !.slots[slotIndex].mEglImage = EGL_NO_IMAGE_KHR]

\* for (i = from; i < NUM_BUFFER_SLOTS; i++) if (mask & (1 << i)) freeBufferLocked(i)
RECURSIVE FreeLoop(_, _, _)
FreeLoop(s, from, mask) ==
    IF from >= NUM_BUFFER_SLOTS THEN s
    ELSE FreeLoop(IF HasBit(mask, 2 ^ from) THEN freeBufferLocked(s, from) ELSE s,
                  from + 1, mask)

AllSlotsMask == 2 ^ NUM_BUFFER_SLOTS - 1

\* abandon without its guard
AbandonNeeded_Always == TRUE

\* the `if (!mAbandoned)` of abandon
AbandonNeeded == ~mAbandoned

abandon ==
    IF AbandonNeeded
    THEN LET s1 == FreeLoop([Pre EXCEPT !.abandoned = TRUE, !.buf = NULL], 0, AllSlotsMask)
         IN  [Call(s1, "consumerDisconnect", 0, 0) EXCEPT !.held = {}, !.queue = NoQueue]
    ELSE Pre

Abandon ==
    /\ CanEnter
    /\ Finish(abandon, "abandon", "app")
    /\ UNCHANGED <<mFrameAvailableListener, mName, mMutex, ofaPc, listener>>

(* --------------------------- onBuffersReleased ------------------------- *)
\* mCurrentTexture left as it was
AfterRelease_Kept(tex) == tex

\* mCurrentTexture once the reclaimed slots are freed
AfterRelease(tex) == INVALID_BUFFER_SLOT

\* onBuffersReleased clearing mCurrentTextureBuf as well
onBuffersReleased_ClearsBuffer(mask) ==
    IF mAbandoned THEN Pre
    ELSE LET s0 == [Call(Pre, "getReleasedBuffers", mask, 0) EXCEPT
                       !.held = {i \in @ : ~HasBit(mask, 2 ^ i)}]
             s1 == FreeLoop(s0, 0, mask)
         IN  [s1 EXCEPT !.tex = AfterRelease(s1.tex), !.buf = NULL]

\* mask is what getReleasedBuffers reports
onBuffersReleased(mask) ==
    IF mAbandoned THEN Pre
    ELSE LET s0 == [Call(Pre, "getReleasedBuffers", mask, 0) EXCEPT
                       !.held = {i \in @ : ~HasBit(mask, 2 ^ i)}]
             s1 == FreeLoop(s0, 0, mask)
         IN  [s1 EXCEPT !.tex = AfterRelease(s1.tex)]

OnBuffersReleased ==
    /\ CanEnter
    /\ \E mask \in 0 .. AllSlotsMask : Finish(onBuffersReleased(mask), "onBuffersReleased", "queue")
    /\ UNCHANGED <<mFrameAvailableListener, mName, mMutex, ofaPc, listener>>

(* ------------------- calls handed on to the BufferQueue ---------------- *)
\* return mBufferQueue->f(...): the queue's status, or a null mBufferQueue
Forward(f) ==
    IF mBufferQueue = NoQueue
    THEN [Pre EXCEPT !.ret = "SIGSEGV", !.crashed = TRUE]
    ELSE [Call(Pre, f, 0, 0) EXCEPT !.ret = "QUEUE_STATUS"]

ForwardAction(f) ==
    /\ CanEnter
    /\ Finish(Forward(f), f, "app")
    /\ UNCHANGED <<mFrameAvailableListener, mName, mMutex, ofaPc, listener>>

SetBufferCountServer == ForwardAction("setBufferCountServer")
SetDefaultBufferSize == ForwardAction("setDefaultBufferSize")
SetDefaultBufferFormat == ForwardAction("setDefaultBufferFormat")
SetConsumerUsageBits == ForwardAction("setConsumerUsageBits")
SetTransformHint == ForwardAction("setTransformHint")
SetSynchronousMode == ForwardAction("setSynchronousMode")
SetBufferCount == ForwardAction("setBufferCount")
Connect == ForwardAction("connect")
IsSynchronousMode == ForwardAction("isSynchronousMode")

\* mName = name; mBufferQueue->setConsumerName(name)
SetName ==
    /\ CanEnter
    /\ \E name \in Names : mName' = name
    /\ Finish(Forward("setConsumerName"), "setName", "app")
    /\ UNCHANGED <<mFrameAvailableListener, mMutex, ofaPc, listener>>

(* ----------------------- the frame-available listener ------------------ *)
SetFrameAvailableListener ==
    /\ CanEnter
    /\ \E l \in Listeners : mFrameAvailableListener' = l
    /\ Finish(Pre, "setFrameAvailableListener", "app")
    /\ UNCHANGED <<mName, mMutex, ofaPc, listener>>

\* the lock kept until onFrameAvailable returns
AfterLockScope_StillHeld == QueueThread

\* who holds mMutex when the "scope for the lock" of onFrameAvailable ends
AfterLockScope == NoThread

\* onFrameAvailable up to the end of the scope: lock, copy the listener, unlock
OnFrameAvailableCopy ==
    /\ CanEnter
    /\ ofaPc = "idle"
    /\ listener' = mFrameAvailableListener
    /\ mMutex' = AfterLockScope
    /\ ofaPc' = "notify"
    /\ Finish(Pre, "onFrameAvailable", "queue")
    /\ UNCHANGED <<mFrameAvailableListener, mName>>

\* if (listener != NULL) listener->onFrameAvailable(): the listener calls
\* updateTexImage on this thread, which has to lock mMutex
OnFrameAvailableNotify ==
    /\ ~crashed
    /\ ofaPc = "notify"
    /\ IF listener = NULL
       THEN UNCHANGED <<consumerVars, envVars, crashed, observed, runSlots, runPure>>
       ELSE /\ mMutex = NoThread
            /\ \E e \in CallerEnvs : \E r \in updateTexImage(e[1], e[2]) :
                   Finish(r, "updateTexImage", "listener")
            /\ UNCHANGED <<mFrameAvailableListener, mName>>
    /\ ofaPc' = "idle"
    /\ listener' = NULL
    /\ mMutex' = NoThread

Next ==
    \/ UpdateTexImage
    \/ Abandon
    \/ OnBuffersReleased
    \/ SetBufferCountServer
    \/ SetDefaultBufferSize
    \/ SetDefaultBufferFormat
    \/ SetConsumerUsageBits
    \/ SetTransformHint
    \/ SetSynchronousMode
    \/ SetBufferCount
    \/ Connect
    \/ IsSynchronousMode
    \/ SetName
    \/ SetFrameAvailableListener
    \/ OnFrameAvailableCopy
    \/ OnFrameAvailableNotify

Spec == Init /\ [][Next]_vars

(* ------------------ computeCurrentTransformMatrix alone ---------------- *)
\* the crops a frame in buffer b may carry: corners on the texel grid of the
\* buffer (for the square buffer, on and next to its border), empty ones
\* included
MatrixCrops(b) ==
    LET xs == IF b = SquareBuffer THEN {0, 1, getWidth(b) - 1, getWidth(b)}
              ELSE 0 .. getWidth(b)
        ys == IF b = SquareBuffer THEN {0, 1, getHeight(b) - 1, getHeight(b)}
              ELSE 0 .. getHeight(b)
    IN  {Rect(l, t, r, bt) : l \in xs, t \in ys, r \in xs, bt \in ys}

\* mCurrentTransform, mCurrentCrop and mCurrentTextureBuf as lines 276-281
\* can leave them when computeCurrentTransformMatrix is called: any flags, and
\* a buffer with a crop inside it or no buffer with a crop the size of a texel
\* or empty
MatrixInputs ==
    UNION {{[transform |-> f, crop |-> c, buf |-> b] :
               f \in 0 .. 7, c \in MatrixCrops(b)} :
           b \in GraphicBuffers \cup {SquareBuffer}}
    \cup {[transform |-> f, crop |-> c, buf |-> NULL] :
            f \in 0 .. 7, c \in {Rect(0, 0, 0, 0), Rect(0, 0, 1, 1)}}

MatrixInit ==
    /\ mAbandoned = FALSE
    /\ mBufferQueue = "BufferQueue"
    /\ mEglDisplay = EGL_NO_DISPLAY
    /\ mEglContext = EGL_NO_CONTEXT
    /\ mEGLSlots = [i \in Slots |-> EmptySlot]
    /\ mCurrentTexture = INVALID_BUFFER_SLOT
    /\ \E in \in MatrixInputs :
         /\ mCurrentTransform = in.transform
         /\ mCurrentCrop = in.crop
         /\ mCurrentTextureBuf = in.buf
    /\ mCurrentScalingMode = 0
    /\ mCurrentTimestamp = 0
    /\ mCurrentTransformMatrix = mtxIdentity
    /\ mFrameAvailableListener = NULL
    /\ mName = "unnamed"
    /\ mUseFenceSync = FALSE
    /\ mMutex = NoThread
    /\ ofaPc = "idle"
    /\ listener = NULL
    /\ acquired = {}
    /\ nextImage = 1
    /\ nextFence = 1
    /\ crashed = FALSE
    /\ op = "SurfaceTexture"
    /\ caller = "app"
    /\ ret = "OK"
    /\ trace = <<>>
    /\ callerEnv = <<EGL_NO_DISPLAY, EGL_NO_CONTEXT>>
    /\ acqStatus = "NONE"
    /\ acq = INVALID_BUFFER_SLOT
    /\ acqBuffer = NULL
    /\ nCalls = 0
    /\ releases = <<>>
    /\ eglDestroyed = <<>>
    /\ runSlots = <<>>
    /\ runPure = TRUE

\* one call of computeCurrentTransformMatrix: buf->getWidth() on a null
\* mCurrentTextureBuf ends the process
ComputeCurrentTransformMatrix ==
    /\ ~crashed
    /\ op = "SurfaceTexture"
    /\ IF ~RectIsEmpty(mCurrentCrop) /\ mCurrentTextureBuf = NULL
       THEN /\ crashed' = TRUE
            /\ UNCHANGED mCurrentTransformMatrix
       ELSE /\ mCurrentTransformMatrix' =
                   computeCurrentTransformMatrix(mCurrentTransform, mCurrentCrop,
                       getWidth(mCurrentTextureBuf), getHeight(mCurrentTextureBuf))
            /\ UNCHANGED crashed
    /\ op' = "computeCurrentTransformMatrix"
    /\ nCalls' = nCalls + 1
    /\ UNCHANGED <<mAbandoned, mBufferQueue, mEglDisplay, mEglContext, mEGLSlots,
                   mCurrentTexture, mCurrentTextureBuf, mCurrentCrop, mCurrentTransform,
                   mCurrentScalingMode, mCurrentTimestamp, mFrameAvailableListener,
                   mName, mUseFenceSync, mMutex, ofaPc, listener, envVars,
                   caller, ret, trace, callerEnv, acqStatus, acq, acqBuffer,
                   runSlots, runPure>>

MatrixNext == ComputeCurrentTransformMatrix

MatrixSpec == MatrixInit /\ [][MatrixNext]_vars

(* ============================== claims ================================= *)
\* the step is one finished call of the named operation
Step(name) == nCalls' = nCalls + 1 /\ op' = name

\* position of the first call named f in a trace, 0 when there is none
FirstCall(t, f) ==
    IF \E i \in 1..Len(t) : t[i][1] = f
    THEN CHOOSE i \in 1..Len(t) : t[i][1] = f /\ \A j \in 1..(i - 1) : t[j][1] # f
    ELSE 0

UpdateFailed == op = "updateTexImage" /\ ret # "OK"

\* C1: an updateTexImage that acquired a buffer and then returned an error has
\* called releaseBuffer for the acquired slot.
C1_ReleasedOnError ==
    (UpdateFailed /\ acq # INVALID_BUFFER_SLOT)
        => \E i \in 1..Len(trace) : trace[i][1] = "releaseBuffer" /\ trace[i][2] = acq

\* C2: when acquireBuffer fails with a status other than "no buffer available",
\* updateTexImage returns that status.
C2_AcquireErrorPassedOn ==
    (op = "updateTexImage" /\ acqStatus \notin {"NONE", "NO_ERROR", "NO_BUFFER_AVAILABLE"})
        => ret = acqStatus

\* C3 as claimed: an updateTexImage that returns an error leaves the current
\* state as it was, and in the slot table at most the native buffer of the
\* acquired slot differs, being the newly supplied one.
C3_OnlyBufferInstalled ==
    [][(Step("updateTexImage") /\ ret' # "OK")
        => /\ currentState' = currentState
           /\ \A i \in Slots :
                \/ mEGLSlots'[i] = mEGLSlots[i]
                \/ /\ i = acq' /\ acqBuffer' # NULL
                   /\ mEGLSlots'[i] = [mEGLSlots[i] EXCEPT !.mGraphicBuffer = acqBuffer']]_vars

\* C3 amended: an updateTexImage that returns an error leaves the current state
\* as it was; a slot changes only if it is the acquired slot and the item
\* carried a buffer, and then the buffer is installed, the fence is kept, and
\* the image is empty or one created by this call.
C3_ErrorKeepsCurrentState ==
    [][(Step("updateTexImage") /\ ret' # "OK")
        => /\ currentState' = currentState
           /\ \A i \in Slots :
                \/ mEGLSlots'[i] = mEGLSlots[i]
                \/ /\ i = acq' /\ acqBuffer' # NULL
                   /\ mEGLSlots'[i].mGraphicBuffer = acqBuffer'
                   /\ mEGLSlots'[i].mFence = mEGLSlots[i].mFence
                   /\ \/ mEGLSlots'[i].mEglImage = EGL_NO_IMAGE_KHR
                      \/ /\ mEGLSlots'[i].mEglImage >= nextImage
                         /\ mEGLSlots'[i].mEglImage < nextImage']_vars

\* an update failed at the bind and left the image it had created in the slot
C3_Witness ==
    /\ UpdateFailed /\ acq # INVALID_BUFFER_SLOT /\ acqBuffer # NULL
    /\ mEGLSlots[acq].mEglImage # EGL_NO_IMAGE_KHR
    /\ mEGLSlots[acq].mGraphicBuffer = acqBuffer
    /\ mCurrentTexture # INVALID_BUFFER_SLOT /\ mCurrentTexture # acq

\* C4: abandon on an abandoned instance changes nothing and calls nothing;
\* updateTexImage on an abandoned instance returns NO_INIT, changes nothing
\* and calls neither the queue nor the driver.
C4_AbandonIdempotent ==
    [][mAbandoned =>
        /\ Step("abandon") =>
             (trace' = <<>> /\ UNCHANGED <<consumerVars, envVars, crashed>>)
        /\ Step("updateTexImage") =>
             (ret' = "NO_INIT" /\ trace' = <<>> /\ UNCHANGED <<consumerVars, envVars, crashed>>)]_vars

\* a second abandon, on an instance whose images the first one destroyed
C4_Witness ==
    mAbandoned /\ op = "abandon" /\ trace = <<>> /\ eglDestroyed # <<>>

\* the operations C5 lists
C5_Ops == {"updateTexImage", "setName", "setDefaultBufferSize", "setDefaultBufferFormat",
           "setConsumerUsageBits", "setTransformHint", "isSynchronousMode",
           "onBuffersReleased"}

\* C5: mAbandoned stays set, and on an abandoned instance none of the listed
\* operations touches the dropped queue reference, the slot table or the
\* current state.
C5_InertOnceAbandoned ==
    [][mAbandoned =>
        /\ mAbandoned'
        /\ (nCalls' = nCalls + 1 /\ op' \in C5_Ops) =>
             (~crashed' /\ trace' = <<>> /\ UNCHANGED <<mEGLSlots, currentState>>)]_vars

\* the caller's display or context differs from one that is latched
CallerMismatch(env) ==
    \/ mEglDisplay # EGL_NO_DISPLAY /\ env[1] # mEglDisplay
    \/ mEglContext # EGL_NO_CONTEXT /\ env[2] # mEglContext

\* C6 as claimed: updateTexImage from a thread whose display or context
\* differs from the latched one returns -EINVAL and changes nothing.
C6_MismatchRejected ==
    [][(Step("updateTexImage") /\ CallerMismatch(callerEnv'))
        => (ret' = "EINVAL" /\ trace' = <<>> /\ UNCHANGED <<consumerVars, envVars>>)]_vars

\* C6 amended: on an instance that is not abandoned, updateTexImage from a
\* thread whose display or context differs from the latched one returns
\* -EINVAL, acquires nothing and changes nothing.
C6_MismatchRejectedUnlessAbandoned ==
    [][(Step("updateTexImage") /\ ~mAbandoned /\ CallerMismatch(callerEnv'))
        => (ret' = "EINVAL" /\ trace' = <<>> /\ UNCHANGED <<consumerVars, envVars>>)]_vars

\* a call from another context of the latched display was rejected
C6_Witness ==
    /\ op = "updateTexImage" /\ ret = "EINVAL" /\ ~mAbandoned
    /\ callerEnv[1] = mEglDisplay /\ callerEnv[2] # mEglContext
    /\ mCurrentTexture # INVALID_BUFFER_SLOT

\* the fences releaseBuffer was called with for a slot, over the whole run
RECURSIVE ReleasesOf(_, _)
ReleasesOf(log, slot) ==
    IF log = <<>> THEN <<>>
    ELSE IF Head(log)[1] = slot THEN <<Head(log)[2]>> \o ReleasesOf(Tail(log), slot)
    ELSE ReleasesOf(Tail(log), slot)

\* C7: after n successful updates of a fresh instance, each acquiring another
\* slot with a new buffer, the current slot is the last one acquired and each
\* earlier slot was released exactly once, with its own fence (no fence when
\* mUseFenceSync is off).
C7_RunReleasesEachOnce ==
    (runPure /\ runSlots # <<>>)
        => /\ mCurrentTexture = runSlots[Len(runSlots)]
           /\ \A i \in 1..(Len(runSlots) - 1) :
                LET fences == ReleasesOf(releases, runSlots[i])
                IN  /\ Len(fences) = 1
                    /\ fences[1] = mEGLSlots[runSlots[i]].mFence
                    /\ ~mUseFenceSync => fences[1] = EGL_NO_SYNC_KHR

\* updates in a row into every slot, with fences
C7_Witness ==
    /\ runPure /\ Len(runSlots) = NUM_BUFFER_SLOTS /\ mUseFenceSync
    /\ Len(releases) = Len(runSlots)

\* C8: with mUseFenceSync, a successful updateTexImage that replaces a current
\* slot creates a fence after attaching the new image, stores it in the old
\* slot and releases the old slot with that fence and no other.
C8_FenceHandedOver ==
    [][(Step("updateTexImage") /\ ret' = "OK" /\ acq' # INVALID_BUFFER_SLOT
            /\ mUseFenceSync /\ mCurrentTexture # INVALID_BUFFER_SLOT)
        => LET old == mCurrentTexture
               f == mEGLSlots'[old].mFence
               bound == FirstCall(trace', "glEGLImageTargetTexture2DOES")
               made == FirstCall(trace', "eglCreateSyncKHR")
           IN  /\ f >= nextFence /\ f < nextFence'
               /\ bound > 0 /\ made > bound
               /\ trace'[made][3] = f
               /\ \E k \in (made + 1)..Len(trace') : trace'[k] = <<"releaseBuffer", old, f>>
               /\ \A k \in 1..Len(trace') :
                    (trace'[k][1] = "releaseBuffer" /\ trace'[k][2] = old) => trace'[k][3] = f]_vars

\* a current slot was replaced and released with a fence
C8_Witness ==
    /\ mUseFenceSync /\ op = "updateTexImage" /\ ret = "OK"
    /\ \E k \in 1..Len(trace) :
         trace[k][1] = "releaseBuffer" /\ trace[k][2] \in Slots /\ trace[k][3] >= 1

\* C9: onBuffersReleased on an instance that is not abandoned leaves every slot
\* of the reported mask without image and without buffer, and no current slot.
C9_ReclaimedSlotsFreed ==
    [][(Step("onBuffersReleased") /\ ~mAbandoned)
        => /\ trace' # <<>> /\ trace'[1][1] = "getReleasedBuffers"
           /\ \A i \in Slots :
                HasBit(trace'[1][2], 2 ^ i)
                    => /\ mEGLSlots'[i].mEglImage = EGL_NO_IMAGE_KHR
                       /\ mEGLSlots'[i].mGraphicBuffer = NULL
           /\ mCurrentTexture' = INVALID_BUFFER_SLOT]_vars

\* a reclaim that destroyed an image and left the image of another slot alone
C9_Witness ==
    /\ op = "onBuffersReleased" /\ ~mAbandoned
    /\ \E k \in 1..Len(trace) : trace[k][1] = "eglDestroyImageKHR"
    /\ \E i \in Slots : mEGLSlots[i].mEglImage # EGL_NO_IMAGE_KHR
    /\ mCurrentTexture = INVALID_BUFFER_SLOT

\* C10: when onFrameAvailable is about to call the listener it does not hold
\* mMutex, and the call (a listener that calls updateTexImage included) can go
\* ahead, whatever other threads have done meanwhile.
C10_ListenerCalledUnlocked ==
    (ofaPc = "notify" /\ ~crashed)
        => (mMutex = NoThread /\ ENABLED OnFrameAvailableNotify)

\* the listener's updateTexImage ran and latched a frame
C10_Witness ==
    ofaPc = "idle" /\ caller = "listener" /\ op = "updateTexImage" /\ ret = "OK"

\* the images the slots hold
StoredImages == {mEGLSlots[i].mEglImage : i \in Slots} \ {EGL_NO_IMAGE_KHR}

\* the images eglCreateImageKHR has returned so far
CreatedImages == 1 .. (nextImage - 1)

\* the images eglDestroyImageKHR was called with so far
DestroyedImages == {eglDestroyed[k] : k \in 1..Len(eglDestroyed)}

\* the mask the last onBuffersReleased got from getReleasedBuffers
ReclaimedMask == IF trace = <<>> THEN 0 ELSE trace[1][2]

\* C11: every image created is either stored in exactly one slot or was
\* destroyed exactly once, never both; a slot installed with a new buffer holds
\* no image older than the call, a reclaimed slot holds none, and on an
\* abandoned instance every created image has been destroyed.
C11_ImagesDestroyedOnce ==
    /\ \A j, k \in 1..Len(eglDestroyed) : j # k => eglDestroyed[j] # eglDestroyed[k]
    /\ \A i, j \in Slots :
         (i # j /\ mEGLSlots[i].mEglImage # EGL_NO_IMAGE_KHR)
             => mEGLSlots[i].mEglImage # mEGLSlots[j].mEglImage
    /\ StoredImages \cap DestroyedImages = {}
    /\ StoredImages \cup DestroyedImages = CreatedImages
    /\ (op = "updateTexImage" /\ acq # INVALID_BUFFER_SLOT /\ acqBuffer # NULL)
         => \/ mEGLSlots[acq].mEglImage = EGL_NO_IMAGE_KHR
            \/ \E k \in 1..Len(trace) :
                 /\ trace[k][1] = "eglCreateImageKHR"
                 /\ trace[k][3] = mEGLSlots[acq].mEglImage
    /\ (op = "onBuffersReleased" /\ trace # <<>>)
         => \A i \in Slots :
              HasBit(ReclaimedMask, 2 ^ i) => mEGLSlots[i].mEglImage = EGL_NO_IMAGE_KHR
    /\ mAbandoned => (StoredImages = {} /\ DestroyedImages = CreatedImages)

\* a slot that held an image was installed with a new buffer
C11_Witness ==
    /\ op = "updateTexImage" /\ acq # INVALID_BUFFER_SLOT /\ acqBuffer # NULL
    /\ \E k \in 1..Len(trace) : trace[k][1] = "eglDestroyImageKHR"
    /\ mEGLSlots[acq].mEglImage # EGL_NO_IMAGE_KHR

\* C12: an updateTexImage that finds no buffer to acquire calls glBindTexture
\* and nothing else, returns OK, and leaves the current state, the slot table
\* and the released buffers as they were.
C12_NoBufferBindsOnly ==
    [][(Step("updateTexImage") /\ acqStatus' = "NO_BUFFER_AVAILABLE")
        => /\ ret' = "OK"
           /\ trace' = << <<"acquireBuffer", INVALID_BUFFER_SLOT, 0>>, <<"glBindTexture", 0, 0>> >>
           /\ UNCHANGED <<currentState, mEGLSlots, releases, acquired>>]_vars

\* no buffer was available while a frame was current
C12_Witness ==
    /\ op = "updateTexImage" /\ acqStatus = "NO_BUFFER_AVAILABLE" /\ ret = "OK"
    /\ mCurrentTexture # INVALID_BUFFER_SLOT

\* C13: an updateTexImage that returns an error has not released the slot
\* that was current, which stays current and acquired; a release of that slot
\* comes only in a call that returns OK, after the new slot's image exists,
\* the bind was made and, where a fence is due, the fence was created.
C13_OldSlotReleasedLast ==
    [][Step("updateTexImage")
        => LET old == mCurrentTexture
               relOld == {k \in 1..Len(trace') :
                            trace'[k][1] = "releaseBuffer" /\ trace'[k][2] = old}
           IN  /\ ret' # "OK"
                    => /\ relOld = {}
                       /\ mCurrentTexture' = old
                       /\ (old # INVALID_BUFFER_SLOT /\ ~mAbandoned) => old \in acquired'
               /\ \A k \in relOld :
                    /\ ret' = "OK"
                    /\ mEGLSlots'[acq'].mEglImage # EGL_NO_IMAGE_KHR
                    /\ \E j \in 1..(k - 1) :
                         trace'[j] = <<"glEGLImageTargetTexture2DOES",
                                       mEGLSlots'[acq'].mEglImage, 0>>
                    /\ (mUseFenceSync /\ old # INVALID_BUFFER_SLOT)
                         => \E j \in 1..(k - 1) :
                              /\ trace'[j][1] = "eglCreateSyncKHR"
                              /\ trace'[j][3] # EGL_NO_SYNC_KHR]_vars

\* the fence could not be created and the current slot was kept
C13_Witness ==
    /\ UpdateFailed
    /\ \E k \in 1..Len(trace) :
         trace[k][1] = "eglCreateSyncKHR" /\ trace[k][3] = EGL_NO_SYNC_KHR
    /\ mCurrentTexture \in acquired

\* C14: a slot that holds an image holds a buffer.
C14_ImageNeedsBuffer ==
    \A i \in Slots :
        mEGLSlots[i].mEglImage # EGL_NO_IMAGE_KHR => mEGLSlots[i].mGraphicBuffer # NULL

\* image creation failed for one slot while another slot holds an image
C14_Witness ==
    /\ UpdateFailed /\ acq # INVALID_BUFFER_SLOT
    /\ mEGLSlots[acq].mGraphicBuffer # NULL
    /\ mEGLSlots[acq].mEglImage = EGL_NO_IMAGE_KHR
    /\ \E i \in Slots : mEGLSlots[i].mEglImage # EGL_NO_IMAGE_KHR

\* C15: while the instance is not abandoned and has a current slot,
\* mCurrentTextureBuf is that slot's buffer and the slot holds an image (the
\* queue hands out no slot the consumer holds).
C15_CurrentSlotBacked ==
    (~mAbandoned /\ mCurrentTexture # INVALID_BUFFER_SLOT)
        => /\ mCurrentTextureBuf = mEGLSlots[mCurrentTexture].mGraphicBuffer
           /\ mEGLSlots[mCurrentTexture].mEglImage # EGL_NO_IMAGE_KHR

\* a slot acquired again without a new buffer became current
C15_Witness ==
    /\ ~mAbandoned /\ op = "updateTexImage" /\ ret = "OK"
    /\ acq # INVALID_BUFFER_SLOT /\ acqBuffer = NULL
    /\ mCurrentTexture = acq

\* C16: onBuffersReleased leaves mCurrentTextureBuf, the crop, transform,
\* scaling mode, timestamp and matrix, the latched display and context, and
\* every slot outside the reported mask as they were.
C16_ReclaimKeepsFrameState ==
    [][Step("onBuffersReleased")
        => /\ UNCHANGED <<mCurrentTextureBuf, mCurrentCrop, mCurrentTransform,
                          mCurrentScalingMode, mCurrentTimestamp,
                          mCurrentTransformMatrix, mEglDisplay, mEglContext>>
           /\ \A i \in Slots :
                (trace' = <<>> \/ ~HasBit(trace'[1][2], 2 ^ i))
                    => mEGLSlots'[i] = mEGLSlots[i]]_vars

\* the slot of the current frame was reclaimed and its buffer is still current
C16_Witness ==
    /\ op = "onBuffersReleased" /\ ~mAbandoned /\ ReclaimedMask # 0
    /\ mCurrentTexture = INVALID_BUFFER_SLOT
    /\ mCurrentTextureBuf # NULL /\ mCurrentTimestamp # 0
    /\ \A i \in Slots : mEGLSlots[i].mGraphicBuffer = NULL

\* C17: an updateTexImage that returns an error before or at the bind, on an
\* instance with no display and no context latched, latches none.
C17_LatchedByBindOnly ==
    [][(/\ Step("updateTexImage")
        /\ mEglDisplay = EGL_NO_DISPLAY /\ mEglContext = EGL_NO_CONTEXT
        /\ ret' \in {"BAD_VALUE", "EINVAL"})
        => (mEglDisplay' = EGL_NO_DISPLAY /\ mEglContext' = EGL_NO_CONTEXT)]_vars

\* the product of two 4 x 4 matrices stored by columns: entry (row r, column
\* c) is at 1 + r + 4c
Product(a, b) ==
    [n |-> [i \in 1..16 |->
              LET r == (i - 1) % 4
                  c == (i - 1) \div 4
              IN  a.n[1 + r] * b.n[1 + 4 * c] + a.n[5 + r] * b.n[2 + 4 * c]
                  + a.n[9 + r] * b.n[3 + 4 * c] + a.n[13 + r] * b.n[4 + 4 * c]],
     d |-> a.d * b.d]

\* I [* FLIP_H] [* FLIP_V] [* ROT_90], by flag value
FlagChain(flags) ==
    CASE flags = 0 -> mtxIdentity
      [] flags = 1 -> mtxFlipH
      [] flags = 2 -> mtxFlipV
      [] flags = 3 -> Product(mtxFlipH, mtxFlipV)
      [] flags = 4 -> mtxRot90
      [] flags = 5 -> Product(mtxFlipH, mtxRot90)
      [] flags = 6 -> Product(mtxFlipV, mtxRot90)
      [] flags = 7 -> Product(Product(mtxFlipH, mtxFlipV), mtxRot90)

\* two matrices with the same entries
SameMatrix(a, b) == \A i \in 1..16 : a.n[i] * b.d = b.n[i] * a.d

MatrixComputed == op = "computeCurrentTransformMatrix" /\ ~crashed

\* C18: with an empty crop the computed matrix is FLIP_V times the chain of
\* the flag matrices in the order H, V, R, with integer entries: FLIP_V for
\* no flags, FLIP_V times the 180-degree matrix for H|V, FLIP_V times the
\* 270-degree matrix for H|V|R.
C18_EmptyCropFlagOrder ==
    (MatrixComputed /\ RectIsEmpty(mCurrentCrop))
        => /\ mCurrentTransformMatrix.d = 1
           /\ SameMatrix(mCurrentTransformMatrix,
                         Product(mtxFlipV, FlagChain(mCurrentTransform)))
           /\ mCurrentTransform = 0 => mCurrentTransformMatrix = mtxFlipV
           /\ mCurrentTransform = 3
                => SameMatrix(mCurrentTransformMatrix, Product(mtxFlipV, mtxRot180))
           /\ mCurrentTransform = 7
                => SameMatrix(mCurrentTransformMatrix, Product(mtxFlipV, mtxRot270))

\* all three flags with an empty crop: x and y swapped
C18_Witness ==
    /\ MatrixComputed /\ RectIsEmpty(mCurrentCrop) /\ mCurrentTransform = 7
    /\ mCurrentTransformMatrix
         = IntMtx(<<0, 1, 0, 0,   1, 0, 0, 0,   0, 0, 1, 0,   0, 0, 0, 1>>)

\* the numerators C19 gives: tx and sx over W, ty and sy over H
ClaimedCrop(crop, W, H) ==
    LET xedges == (IF crop.left > 0 THEN 1 ELSE 0) + (IF crop.right < W THEN 1 ELSE 0)
        yedges == (IF crop.top > 0 THEN 1 ELSE 0) + (IF crop.bottom < H THEN 1 ELSE 0)
    IN  [tx |-> IF crop.left > 0 THEN crop.left + 1 ELSE 0,
         ty |-> IF crop.bottom < H THEN H - crop.bottom + 1 ELSE 0,
         sx |-> (crop.right - crop.left) - xedges,
         sy |-> (crop.bottom - crop.top) - yedges]

\* the matrix { sx,0,0,0, 0,sy,0,0, 0,0,1,0, tx,ty,0,1 } of those numbers
ClaimedCropMatrix(crop, W, H) ==
    LET k == ClaimedCrop(crop, W, H)
    IN  [n |-> <<k.sx * H, 0, 0, 0,   0, k.sy * W, 0, 0,   0, 0, W * H, 0,
                 k.tx * H, k.ty * W, 0, W * H>>,
         d |-> W * H]

\* C19: for a crop that is not empty, inside a W x H buffer, the computed
\* matrix is FLIP_V * crop * flags with the crop matrix of tx = (left+1)/W if
\* left > 0 else 0, ty = (H-bottom+1)/H if bottom < H else 0, sx = (width -
\* inner vertical edges)/W, sy = (height - inner horizontal edges)/H; with no
\* flags the four numbers are read off the matrix; the whole buffer gives
\* sx = sy = 1, tx = ty = 0, and (1,1,255,255) in 256 x 256 gives 2/256 and
\* 252/256.
C19_CropTerms ==
    (MatrixComputed /\ ~RectIsEmpty(mCurrentCrop))
        => LET W == getWidth(mCurrentTextureBuf)
               H == getHeight(mCurrentTextureBuf)
               k == ClaimedCrop(mCurrentCrop, W, H)
               m == mCurrentTransformMatrix
           IN  /\ SameMatrix(m, Product(mtxFlipV,
                                Product(ClaimedCropMatrix(mCurrentCrop, W, H),
                                        FlagChain(mCurrentTransform))))
               /\ mCurrentTransform = 0
                    => /\ m.n[1] * W = k.sx * m.d
                       /\ m.n[6] * H = (0 - k.sy) * m.d
                       /\ m.n[13] * W = k.tx * m.d
                       /\ (m.d - m.n[14]) * H = k.ty * m.d
               /\ mCurrentCrop = Rect(0, 0, W, H)
                    => SameMatrix(m, Product(mtxFlipV, FlagChain(mCurrentTransform)))
               /\ (W = 256 /\ H = 256 /\ mCurrentCrop = Rect(1, 1, 255, 255)
                     /\ mCurrentTransform = 0)
                    => /\ m.n[13] * 256 = 2 * m.d /\ (m.d - m.n[14]) * 256 = 2 * m.d
                       /\ m.n[1] * 256 = 252 * m.d /\ m.n[6] * 256 = (0 - 252) * m.d

\* the crop (1,1,255,255) of a 256 x 256 buffer, no flags
C19_Witness ==
    /\ MatrixComputed /\ mCurrentTextureBuf = SquareBuffer /\ mCurrentTransform = 0
    /\ mCurrentCrop = Rect(1, 1, 255, 255)
    /\ mCurrentTransformMatrix.n[13] * 256 = 2 * mCurrentTransformMatrix.d
    /\ mCurrentTransformMatrix.n[1] * 256 = 252 * mCurrentTransformMatrix.d

\* C20: every releaseBuffer call of updateTexImage names a slot of the table.
C20_ReleasesValidSlot ==
    op = "updateTexImage"
        => \A k \in 1..Len(trace) :
             trace[k][1] = "releaseBuffer" => trace[k][2] \in Slots

\* C21: for a crop that is not empty and lies inside the buffer, the scale
\* factors sx and sy of the crop matrix are strictly positive (read off the
\* matrix computed with no flags, where they are the entries [0] and -[5]).
C21_ScalePositive ==
    (/\ MatrixComputed /\ mCurrentTransform = 0
     /\ mCurrentCrop.left >= 0 /\ mCurrentCrop.left < mCurrentCrop.right
     /\ mCurrentCrop.right <= getWidth(mCurrentTextureBuf)
     /\ mCurrentCrop.top >= 0 /\ mCurrentCrop.top < mCurrentCrop.bottom
     /\ mCurrentCrop.bottom <= getHeight(mCurrentTextureBuf))
        => (mCurrentTransformMatrix.n[1] > 0 /\ mCurrentTransformMatrix.n[6] < 0)

====
